---------------------------- MODULE Spec2Model ----------------------------
(***************************************************************************)
(* Wave picking: InstanceParser.parse (nosso_projeto/data_parser.py),      *)
(* Instance (nosso_projeto/model.py), and the Dinkelbach driver            *)
(* WaveSolver (Solver/solver_V3.py) as run by run_challenge                *)
(* (Solver/main.py).                                                       *)
(*                                                                         *)
(* Conventions.  A Python dict is a function on its key set.  A Python     *)
(* list is a sequence; ids are 0-based as in the code, so the order with   *)
(* id k is orders[k + 1].  A float ratio units / n is the pair <<units, n>>*)
(* and is compared by cross multiplication; 0.0 is <<0, 1>>.  Time is in   *)
(* whole seconds and only oracle calls consume it.                         *)
(***************************************************************************)
EXTENDS Integers, Sequences, FiniteSets, TLC

VARIABLES
    lines,          \* the instance file: one sequence of integers per line
    time_limit,     \* run_challenge's time_limit argument
    paces,          \* how long the oracle may take per call on this run
    pc,             \* position of run_challenge / solve
    instance,       \* the parsed Instance
    best_solution,  \* WaveSolver.best_solution (Best-Solution Register)
    current_R,      \* solve: current_R
    last_orders,    \* solve: last_orders (warm start)
    last_aisles,    \* solve: last_aisles (warm start)
    has_momentum,   \* solve: has_momentum
    i,              \* solve: loop index of "for i in range(MAX_ITERATIONS)"
    elapsed,        \* time.time() - start_time
    iter_time_limit,\* solve: iter_time_limit of the last oracle call
    call_R,         \* ratio_R passed to the last oracle call
    answer,         \* what solve() saw of the last call's result
    ncalls,         \* number of oracle calls that have returned so far
    exit_reason,    \* which break (or loop end) left the iteration loop
    output,         \* content of the solution file, or NoFile
    run,            \* 0: a single run; 1, 2: first and second of two runs;
                    \* 3, 4: first and second solve() of one WaveSolver
    trace,          \* the oracle calls of the first of two runs
    first           \* best_solution at the end of the first of two runs

vars == <<lines, time_limit, paces, pc, instance, best_solution, current_R,
          last_orders, last_aisles, has_momentum, i, elapsed,
          iter_time_limit, call_R, answer, ncalls, exit_reason, output,
          run, trace, first>>

----------------------------------------------------------------------------
(* Bounds of the generated instance files.                                 *)
MaxQty == 2
MaxWave == 3
MaxOverrun == 2

(* Program constants of solve().                                           *)
MAX_ITERATIONS == 30
CONVERGENCE_TOL_INV == 1000000     \* CONVERGENCE_TOL = 1e-6 = 1 / 1000000
base_iter_time == 15
momentum_bonus_factor == 2
SAFETY_MARGIN == 5
THRESHOLD_NUM == 11                \* significant_improvement_threshold
THRESHOLD_DEN == 10                \*   = 1.10 = 11 / 10
DEFAULT_TIME_LIMIT == 600

----------------------------------------------------------------------------
(* Generic helpers.                                                        *)

RECURSIVE SumFn(_, _)
SumFn(f, S) ==
    IF S = {} THEN 0
    ELSE LET x == CHOOSE y \in S : TRUE IN f[x] + SumFn(f, S \ {x})

Range(s) == {s[k] : k \in DOMAIN s}

Min(S) == CHOOSE x \in S : \A y \in S : x <= y

RECURSIVE SortedSeq(_)
SortedSeq(S) ==
    IF S = {} THEN <<>>
    ELSE <<Min(S)>> \o SortedSeq(S \ {Min(S)})

EmptyDict == <<>>

Get(d, k) == IF k \in DOMAIN d THEN d[k] ELSE 0

(* Ratios as pairs <<numerator, denominator>>, denominator > 0.           *)
Zero == <<0, 1>>
RatioGt(a, b) == a[1] * b[2] > b[1] * a[2]
RatioGe(a, b) == a[1] * b[2] >= b[1] * a[2]
RatioEq(a, b) == a[1] * b[2] = b[1] * a[2]
\* a > b + CONVERGENCE_TOL
GtPlusTol(a, b) ==
    a[1] * b[2] * CONVERGENCE_TOL_INV >
        b[1] * a[2] * CONVERGENCE_TOL_INV + a[2] * b[2]

----------------------------------------------------------------------------
(* model.py: Instance                                                      *)

EmptyInstance ==
    [num_orders |-> 0, num_items |-> 0, num_aisles |-> 0,
     orders |-> <<>>, aisles |-> <<>>,
     item_locations |-> EmptyDict, orders_by_item |-> EmptyDict,
     min_wave_size |-> 0, max_wave_size |-> 0]

\* Variant: the index stores the aisles' positions counted from 1.
build_item_locations_from_one(aisles) ==
    LET items == UNION {DOMAIN aisles[k].inventory : k \in DOMAIN aisles}
    IN [item \in items |->
          SortedSeq({aisles[k].id + 1 : k \in {j \in DOMAIN aisles :
                                        item \in DOMAIN aisles[j].inventory}})]

\* Instance.build_item_locations: item -> list of ids of the aisles whose
\* inventory has the item as a key, in aisle order.
build_item_locations(aisles) ==
    LET items == UNION {DOMAIN aisles[k].inventory : k \in DOMAIN aisles}
    IN [item \in items |->
          SortedSeq({aisles[k].id : k \in {j \in DOMAIN aisles :
                                        item \in DOMAIN aisles[j].inventory}})]

\* Instance.build_orders_by_item: item -> list of ids of the orders that
\* have the item as a key, in order of the orders.
build_orders_by_item(orders) ==
    LET items == UNION {DOMAIN orders[k].items : k \in DOMAIN orders}
    IN [item \in items |->
          SortedSeq({orders[k].id : k \in {j \in DOMAIN orders :
                                        item \in DOMAIN orders[j].items}})]

----------------------------------------------------------------------------
(* data_parser.py: InstanceParser.parse                                    *)

\* A record line "k id1 qty1 ... idk qtyk" can be read by the dict
\* comprehension: parts[0] exists and the payload has at least 2k entries
\* (otherwise items_data[2*i+1] raises IndexError).
RecordOk(parts) ==
    /\ Len(parts) >= 1
    /\ Len(parts) - 1 >= 2 * parts[1]

\* {data[2*i]: data[2*i+1] for i in range(parts[0])}: a repeated key keeps
\* the value of its last occurrence.
ParseDict(parts) ==
    LET k == parts[1]
        data == Tail(parts)
        keys == {data[2 * n - 1] : n \in 1..k}
        last(key) == CHOOSE n \in 1..k :
                        /\ data[2 * n - 1] = key
                        /\ \A m \in 1..k : data[2 * m - 1] = key => m <= n
    IN [key \in keys |-> data[2 * last(key)]]

\* The aisle loop: stops at the end of the file, at a blank line, or at a
\* line of at most two numbers that is not the first aisle.
RECURSIVE ReadAisles(_, _, _, _, _)
ReadAisles(ls, idx, aisle_id, num_aisles, acc) ==
    IF aisle_id >= num_aisles
        THEN [ok |-> TRUE, aisles |-> acc, idx |-> idx]
    ELSE IF idx > Len(ls) \/ ls[idx] = <<>>
        THEN [ok |-> TRUE, aisles |-> acc, idx |-> idx]
    ELSE IF Len(ls[idx]) <= 2 /\ aisle_id > 0
        THEN [ok |-> TRUE, aisles |-> acc, idx |-> idx]
    ELSE IF ~RecordOk(ls[idx])
        THEN [ok |-> FALSE, aisles |-> acc, idx |-> idx]
    ELSE ReadAisles(ls, idx + 1, aisle_id + 1, num_aisles,
                    Append(acc, [id |-> aisle_id,
                                 inventory |-> ParseDict(ls[idx])]))

\* The wave limits: read only from a line of exactly two numbers.
ReadLimits(ls, idx) ==
    IF idx <= Len(ls) /\ Len(ls[idx]) = 2
        THEN <<ls[idx][1], ls[idx][2]>>
        ELSE <<0, 0>>

ParseError == [ok |-> FALSE, instance |-> EmptyInstance]

\* InstanceParser.parse.  Only build_item_locations is called at the end;
\* orders_by_item keeps its default, the empty dict.
parse(ls) ==
    IF Len(ls) = 0 \/ Len(ls[1]) # 3 THEN ParseError
    ELSE
      LET num_orders == ls[1][1]
          num_items == ls[1][2]
          num_aisles == ls[1][3]
          orders_ok == \A j \in 1..num_orders :
                          1 + j <= Len(ls) /\ RecordOk(ls[1 + j])
      IN IF ~orders_ok THEN ParseError
         ELSE
           LET orders == [j \in 1..num_orders |->
                            LET d == ParseDict(ls[1 + j])
                            IN [id |-> j - 1, items |-> d,
                                total_units |-> SumFn(d, DOMAIN d)]]
               ar == ReadAisles(ls, num_orders + 2, 0, num_aisles, <<>>)
               limits == ReadLimits(ls, ar.idx)
           IN IF ~ar.ok THEN ParseError
              ELSE [ok |-> TRUE,
                    instance |->
                      [num_orders |-> num_orders, num_items |-> num_items,
                       num_aisles |-> num_aisles,
                       orders |-> orders, aisles |-> ar.aisles,
                       item_locations |-> build_item_locations(ar.aisles),
                       orders_by_item |-> EmptyDict,
                       min_wave_size |-> limits[1],
                       max_wave_size |-> limits[2]]]

----------------------------------------------------------------------------
(* parser.py: InstanceParser.parse, the parser of the first solver         *)
(* (src/solver.py).  Its Instance has no orders_by_item.                   *)

\* if len(items_data) != 2 * k
PayloadMismatch(parts) == Len(parts) - 1 # 2 * parts[1]

\* The aisle loop of parser.py: stops at the end of the file or at a line
\* whose payload does not match its count; an empty line raises IndexError
\* on parts[0].
RECURSIVE parser_ReadAisles(_, _, _, _, _)
parser_ReadAisles(ls, idx, aisle_id, num_aisles, acc) ==
    IF aisle_id >= num_aisles
        THEN [ok |-> TRUE, aisles |-> acc, idx |-> idx]
    ELSE IF idx > Len(ls)
        THEN [ok |-> TRUE, aisles |-> acc, idx |-> idx]
    ELSE IF ls[idx] = <<>>
        THEN [ok |-> FALSE, aisles |-> acc, idx |-> idx]
    ELSE IF PayloadMismatch(ls[idx])
        THEN [ok |-> TRUE, aisles |-> acc, idx |-> idx]
    ELSE parser_ReadAisles(ls, idx + 1, aisle_id + 1, num_aisles,
                           Append(acc, [id |-> aisle_id,
                                        inventory |-> ParseDict(ls[idx])]))

parser_ParseError ==
    [ok |-> FALSE,
     instance |-> [num_orders |-> 0, num_items |-> 0, num_aisles |-> 0,
                   orders |-> <<>>, aisles |-> <<>>,
                   item_locations |-> EmptyDict,
                   min_wave_size |-> 0, max_wave_size |-> 0]]

parser_parse(ls) ==
    IF Len(ls) = 0 \/ Len(ls[1]) # 3 THEN parser_ParseError
    ELSE
      LET num_orders == ls[1][1]
          num_items == ls[1][2]
          num_aisles == ls[1][3]
          orders_ok == \A j \in 1..num_orders :
                          /\ 1 + j <= Len(ls)
                          /\ ls[1 + j] # <<>>
                          /\ ~PayloadMismatch(ls[1 + j])
      IN IF ~orders_ok THEN parser_ParseError
         ELSE
           LET orders == [j \in 1..num_orders |->
                            LET d == ParseDict(ls[1 + j])
                            IN [id |-> j - 1, items |-> d,
                                total_units |-> SumFn(d, DOMAIN d)]]
               ar == parser_ReadAisles(ls, num_orders + 2, 0, num_aisles,
                                       <<>>)
               limits == ReadLimits(ls, ar.idx)
           IN IF ~ar.ok THEN parser_ParseError
              ELSE [ok |-> TRUE,
                    instance |->
                      [num_orders |-> num_orders, num_items |-> num_items,
                       num_aisles |-> num_aisles,
                       orders |-> orders, aisles |-> ar.aisles,
                       item_locations |-> build_item_locations(ar.aisles),
                       min_wave_size |-> limits[1],
                       max_wave_size |-> limits[2]]]

----------------------------------------------------------------------------
(* solver_V3.py: WaveSolver.__init__                                       *)

EmptySolution ==
    [orders |-> <<>>, aisles |-> <<>>, objective |-> Zero, total_units |-> 0]

WaveSolverInit == EmptySolution

----------------------------------------------------------------------------
(* solver_V3.py: WaveSolver._generate_initial_solution (Greedy Seeder)     *)

OrderById(inst, id) == inst.orders[id + 1]
AisleById(inst, id) == inst.aisles[id + 1]

\* required_aisles of one order: union of item_locations over its items.
RequiredAisles(inst, order) ==
    UNION {Range(inst.item_locations[item]) :
              item \in DOMAIN order.items \cap DOMAIN inst.item_locations}

\* Orders that get a score: num_required_aisles > 0.
Scoreable(inst) ==
    {k \in DOMAIN inst.orders : RequiredAisles(inst, inst.orders[k]) # {}}

\* score = order.total_units / num_required_aisles
Score(inst, k) ==
    <<inst.orders[k].total_units,
      Cardinality(RequiredAisles(inst, inst.orders[k]))>>

\* order_scores.sort(key=score, reverse=True): descending score, stable, so
\* equal scores keep the order of the instance.
RECURSIVE SortByScore(_, _)
SortByScore(inst, S) ==
    IF S = {} THEN <<>>
    ELSE LET best == CHOOSE k \in S : \A j \in S :
                        \/ RatioGt(Score(inst, k), Score(inst, j))
                        \/ RatioEq(Score(inst, k), Score(inst, j)) /\ k <= j
         IN <<best>> \o SortByScore(inst, S \ {best})

\* if current_units + order.total_units <= max_wave_size
Fits(inst, units, order) ==
    units + order.total_units <= inst.max_wave_size

\* Variant: the scan ends at the first order that does not fit ("break"
\* in place of going on to the next order).
RECURSIVE GreedyAcceptUntilMisfit(_, _, _, _)
GreedyAcceptUntilMisfit(inst, scan, sel, units) ==
    IF scan = <<>> THEN [selected |-> sel, units |-> units]
    ELSE LET order == inst.orders[Head(scan)]
         IN IF units + order.total_units <= inst.max_wave_size
              THEN GreedyAcceptUntilMisfit(inst, Tail(scan),
                                           sel \cup {order.id},
                                           units + order.total_units)
              ELSE [selected |-> sel, units |-> units]

\* The accumulation loop over the sorted orders.
RECURSIVE GreedyAccept(_, _, _, _)
GreedyAccept(inst, scan, sel, units) ==
    IF scan = <<>> THEN [selected |-> sel, units |-> units]
    ELSE LET order == inst.orders[Head(scan)]
         IN IF Fits(inst, units, order)
              THEN GreedyAccept(inst, Tail(scan), sel \cup {order.id},
                                units + order.total_units)
              ELSE GreedyAccept(inst, Tail(scan), sel, units)

Greedy(inst) ==
    GreedyAccept(inst, SortByScore(inst, Scoreable(inst)), {}, 0)

\* demand / supply of one item over a set of order ids / aisle ids.
Demand(inst, sel, item) ==
    SumFn([o \in sel |-> Get(OrderById(inst, o).items, item)], sel)

Supply(inst, aisles, item) ==
    SumFn([a \in aisles |-> Get(AisleById(inst, a).inventory, item)], aisles)

ItemsOf(inst, sel) == UNION {DOMAIN OrderById(inst, o).items : o \in sel}

\* Variant: the seed is not tested against min_wave_size.
SeedBelowMinSkipped(inst, g) == FALSE

\* if current_units < min_wave_size: return 0.0, [], []
SeedBelowMin(inst, g) == g.units < inst.min_wave_size

\* Variant: the greedy seed is taken without the supply check.
SeedInfeasibleSkipped(inst, sel, aisles) == FALSE

\* The explicit feasibility check of the seed.
SeedInfeasible(inst, sel, aisles) ==
    \E item \in ItemsOf(inst, sel) :
        Demand(inst, sel, item) > Supply(inst, aisles, item)

ZeroTriple ==
    [stored |-> FALSE, ratio |-> Zero, orders |-> <<>>, aisles |-> <<>>,
     total_units |-> 0]

\* The triple returned; stored says whether self.best_solution was set.
generate_initial_solution(inst) ==
    LET g == Greedy(inst)
        heuristic_aisles ==
            UNION {RequiredAisles(inst, OrderById(inst, o)) : o \in g.selected}
    IN IF SeedBelowMin(inst, g) THEN ZeroTriple
       ELSE IF heuristic_aisles = {} THEN ZeroTriple
       ELSE IF SeedInfeasible(inst, g.selected, heuristic_aisles)
            THEN ZeroTriple
       ELSE [stored |-> TRUE,
             ratio |-> <<g.units, Cardinality(heuristic_aisles)>>,
             orders |-> SortedSeq(g.selected),
             aisles |-> SortedSeq(heuristic_aisles),
             total_units |-> g.units]

----------------------------------------------------------------------------
(* solver_V3.py: WaveSolver._solve_subproblem and the MILP oracle          *)

OrderIds(inst) == {inst.orders[k].id : k \in DOMAIN inst.orders}
AisleIds(inst) == {inst.aisles[k].id : k \in DOMAIN inst.aisles}

\* total_units_expr for the assignment x = 1 on X
Units(inst, X) ==
    SumFn([o \in X |-> OrderById(inst, o).total_units], X)

\* Variant: only the lower wave-size constraint is added to the model.
WaveSizeConstrNoMax(inst, X) ==
    Units(inst, X) >= inst.min_wave_size

\* Constraints min_wave_size and max_wave_size.
WaveSizeConstr(inst, X) ==
    /\ Units(inst, X) >= inst.min_wave_size
    /\ Units(inst, X) <= inst.max_wave_size

\* Constraints inventory_sufficiency_<item>: one per key of orders_by_item.
InventoryConstr(inst, X, Y) ==
    \A item \in DOMAIN inst.orders_by_item :
        LET relevant_orders == Range(inst.orders_by_item[item])
            relevant_aisles ==
                IF item \in DOMAIN inst.item_locations
                    THEN Range(inst.item_locations[item]) ELSE {}
        IN Demand(inst, relevant_orders \cap X, item)
               <= Supply(inst, relevant_aisles \cap Y, item)

\* The assignments (X, Y) that satisfy every constraint added to sub_model.
Feasible(inst) ==
    {xy \in (SUBSET OrderIds(inst)) \X (SUBSET AisleIds(inst)) :
        /\ WaveSizeConstr(inst, xy[1])
        /\ InventoryConstr(inst, xy[1], xy[2])}

\* Objective total_units_expr - ratio_R * total_aisles_expr, as a ratio
\* over the denominator of R.
SubObjective(inst, xy, R) ==
    <<Units(inst, xy[1]) * R[2] - R[1] * Cardinality(xy[2]), R[2]>>

\* The value of the best feasible assignment (feas is not empty).
MaxObjective(inst, feas, R) ==
    LET vals == {SubObjective(inst, xy, R)[1] : xy \in feas}
    IN CHOOSE v \in vals : \A w \in vals : v >= w

Optimal(inst, R) ==
    LET feas == Feasible(inst)
    IN IF feas = {} THEN {}
       ELSE LET best == MaxObjective(inst, feas, R)
            IN {xy \in feas : SubObjective(inst, xy, R)[1] = best}

NegInf == <<-1, 0>>      \* -float('inf'): below every tolerance

WithSolution(inst, xy, R, status) ==
    [F_R |-> SubObjective(inst, xy, R), found |-> TRUE,
     new_orders |-> SortedSeq(xy[1]), new_aisles |-> SortedSeq(xy[2]),
     status |-> status]

NoSolution(status) ==
    [F_R |-> NegInf, found |-> FALSE, new_orders |-> <<>>,
     new_aisles |-> <<>>, status |-> status]

\* What _solve_subproblem can return: a proven optimum, any feasible
\* incumbent at the time limit, nothing at the time limit, or nothing
\* because the encoded constraints admit no assignment.
OracleAnswers(inst, R) ==
    {WithSolution(inst, xy, R, "OPTIMAL") : xy \in Optimal(inst, R)}
    \cup {WithSolution(inst, xy, R, "TIME_LIMIT") : xy \in Feasible(inst)}
    \cup {NoSolution("TIME_LIMIT")}
    \cup (IF Feasible(inst) = {} THEN {NoSolution("INFEASIBLE")} ELSE {})


----------------------------------------------------------------------------
(* The inputs of a run: an instance file, a time budget and the oracle's   *)
(* pace.                                                                   *)

SeqsOf(S, counts) == UNION {[1..n -> S] : n \in counts}

File(os, as, limits) ==
    <<<<Len(os), 1, Len(as)>>>> \o os \o as \o <<limits>>

\* Every well-formed file over item 0 within the bounds: one or two
\* orders, at most one aisle, quantities up to MaxQty, wave limits up to
\* MaxWave (also with the lower limit above the upper one).
OrderCounts == {1, 2}
AisleCounts == {0, 1}
OrderLines == {<<1, 0, q>> : q \in 1..MaxQty}
AisleLines == {<<0>>} \cup {<<1, 0, q>> : q \in 1..MaxQty}

GenericFiles ==
    {File(os, as, <<lb, ub>>) :
        os \in SeqsOf(OrderLines, OrderCounts),
        as \in SeqsOf(AisleLines, AisleCounts),
        lb \in 0..MaxWave, ub \in 0..MaxWave}

\* The example of the specification: orders of 3 and 5 units of item 0,
\* one aisle with 10 units, wave size 3..8.
ExampleFile ==
    << <<2, 1, 1>>, <<1, 0, 3>>, <<1, 0, 5>>, <<1, 0, 10>>, <<3, 8>> >>

\* The same instance with wave size bounds 3 and 2.
ExampleFileNarrow ==
    << <<2, 1, 1>>, <<1, 0, 3>>, <<1, 0, 5>>, <<1, 0, 10>>, <<3, 2>> >>

\* Two items, two aisles: order 0 needs both aisles, order 1 one of them.
TwoAisleFile ==
    << <<2, 2, 2>>, <<2, 0, 1, 1, 1>>, <<1, 1, 2>>,
       <<1, 0, 1>>, <<2, 0, 1, 1, 3>>, <<1, 4>> >>

\* Five orders of 1, 2, 4, 8 and 16 units and one aisle that stocks a
\* single unit: the seed fails and every ratio 1..31 can be a candidate.
LadderFile ==
    << <<5, 1, 1>>, <<1, 0, 1>>, <<1, 0, 2>>, <<1, 0, 4>>, <<1, 0, 8>>,
       <<1, 0, 16>>, <<1, 0, 1>>, <<1, 31>> >>

\* Files parse cannot read: the second order line is missing (IndexError),
\* the header has two numbers (ValueError on unpacking), an order line is
\* shorter than its count says (IndexError).
MalformedFiles ==
    { << <<2, 1, 1>>, <<1, 0, 3>> >>,
      << <<1, 1>>, <<1, 0, 1>>, <<1, 0, 1>>, <<1, 1>> >>,
      << <<1, 1, 1>>, <<1, 0>>, <<1, 0, 1>>, <<1, 1>> >> }

\* Files whose records or limits line are not as the format says: an
\* order line and an aisle line with a payload longer than its count, a
\* header that declares two aisles where one line follows, a second aisle
\* with an empty inventory, no limits line, a limits line of three
\* numbers, a negative lower limit.
OddFiles ==
    { << <<1, 1, 1>>, <<1, 0, 1, 0, 1>>, <<1, 0, 1>>, <<1, 1>> >>,
      << <<1, 1, 1>>, <<1, 0, 1>>, <<1, 0, 1, 0>>, <<1, 1>> >>,
      << <<1, 1, 2>>, <<1, 0, 1>>, <<1, 0, 1>>, <<1, 1>> >>,
      << <<1, 1, 2>>, <<1, 0, 1>>, <<1, 0, 1>>, <<0>>, <<1, 1>> >>,
      << <<1, 1, 1>>, <<1, 0, 1>>, <<1, 0, 1>> >>,
      << <<1, 1, 1>>, <<1, 0, 1>>, <<1, 0, 1>>, <<1, 2, 3>> >>,
      << <<1, 1, 1>>, <<1, 0, 1>>, <<1, 0, 1>>, <<-1, 1>> >> }

Paces == {"instant", "full", "over"}

TimeBudgets == {SAFETY_MARGIN, 12, 20, 30, DEFAULT_TIME_LIMIT}

Inputs ==
    {[lines |-> f, time_limit |-> DEFAULT_TIME_LIMIT,
      paces |-> {"instant"}] : f \in GenericFiles \cup MalformedFiles \cup OddFiles}
    \cup {[lines |-> f, time_limit |-> t, paces |-> Paces] :
            f \in {ExampleFile, ExampleFileNarrow, TwoAisleFile},
            t \in TimeBudgets}

\* The inputs of the runs that can use up range(MAX_ITERATIONS).
LadderInputs ==
    {[lines |-> LadderFile, time_limit |-> DEFAULT_TIME_LIMIT,
      paces |-> {"instant"}]}

\* Seconds one oracle call takes: none, its whole time limit, or its time
\* limit and an overrun.
Duration(pace, limit) ==
    CASE pace = "instant" -> 0
      [] pace = "full" -> limit
      [] pace = "over" -> limit + MaxOverrun

----------------------------------------------------------------------------
(* main.py: run_challenge; solver_V3.py: WaveSolver.solve                  *)

\* Before the first call nothing has been returned.
NoAnswer ==
    [status |-> "NONE", found |-> FALSE, F_le_tol |-> FALSE,
     no_aisles |-> FALSE, new_R |-> Zero]

\* Variant: the flag is kept from the previous run (an attribute that
\* solve() does not reset).
StaleMomentum == has_momentum

\* has_momentum = False, before the loop
InitialMomentum == FALSE

NoFile == [written |-> FALSE, orders |-> <<>>, aisles |-> <<>>]

InitWith(inputs, r) ==
    /\ \E inp \in inputs :
          /\ lines = inp.lines
          /\ time_limit = inp.time_limit
          /\ paces = inp.paces
    /\ pc = "start"
    /\ instance = EmptyInstance
    /\ best_solution = EmptySolution
    /\ current_R = Zero
    /\ last_orders = <<>>
    /\ last_aisles = <<>>
    /\ has_momentum = FALSE
    /\ i = 0
    /\ elapsed = 0
    /\ iter_time_limit = 0
    /\ call_R = Zero
    /\ answer = NoAnswer
    /\ ncalls = 0
    /\ exit_reason = "none"
    /\ output = NoFile
    /\ run = r
    /\ trace = <<>>
    /\ first = EmptySolution

\* run_challenge: InstanceParser.parse, then WaveSolver(instance_data, ...).
\* An exception of parse ends the run in the except clauses.
Parse ==
    /\ pc = "start"
    /\ LET r == parse(lines)
       IN IF r.ok
            THEN /\ instance' = r.instance
                 /\ best_solution' = WaveSolverInit
                 /\ pc' = "constructed"
            ELSE /\ pc' = "error"
                 /\ UNCHANGED <<instance, best_solution>>
    /\ UNCHANGED <<lines, time_limit, paces, current_R, last_orders,
                   last_aisles, has_momentum, i, elapsed, iter_time_limit,
                   call_R, answer, ncalls, exit_reason, output, run, trace,
                   first>>

\* Variant: the seeder sorts self.instance.orders itself by score, in
\* place.
OrdersSortedInPlace(inst) ==
    LET scan == SortByScore(inst, Scoreable(inst))
        rest == SortedSeq(DOMAIN inst.orders \ Range(scan))
        perm == scan \o rest
    IN [k \in DOMAIN inst.orders |-> inst.orders[perm[k]]]

\* instance.orders after the seeder: the scores are sorted in a list of
\* their own (order_scores), the orders of the instance stay as parsed.
OrdersAfterScan(inst) == inst.orders

\* solve, up to the loop: start_time is read, the seeder runs and the
\* loop's locals are set.
Seed ==
    /\ pc = "constructed"
    /\ LET seed == generate_initial_solution(instance)
       IN /\ best_solution' =
                IF seed.stored
                    THEN [orders |-> seed.orders, aisles |-> seed.aisles,
                          objective |-> seed.ratio,
                          total_units |-> seed.total_units]
                    ELSE best_solution
          /\ current_R' = seed.ratio
          /\ last_orders' = seed.orders
          /\ last_aisles' = seed.aisles
    /\ instance' = [instance EXCEPT !.orders = OrdersAfterScan(instance)]
    /\ has_momentum' = InitialMomentum
    /\ i' = 0
    /\ elapsed' = 0
    /\ pc' = "iterating"
    /\ UNCHANGED <<lines, time_limit, paces, iter_time_limit,
                   call_R, answer, ncalls, exit_reason, output, run, trace,
                   first>>

remaining_global_time == time_limit - elapsed

\* Variant: the slice is not capped by the remaining global time.
IterTimeLimitUncapped ==
    IF has_momentum THEN base_iter_time * momentum_bonus_factor
                    ELSE base_iter_time

\* iter_time_limit = min(base or base * bonus, remaining_global_time)
IterTimeLimit ==
    LET t == IF has_momentum
                THEN base_iter_time * momentum_bonus_factor
                ELSE base_iter_time
    IN IF t <= remaining_global_time THEN t ELSE remaining_global_time

\* Variant: the loop is left only when no time remains.
TimeIsUpAtZero == remaining_global_time <= 0

\* if remaining_global_time <= 5: break
TimeIsUp == remaining_global_time <= SAFETY_MARGIN

\* Variant: a loop without the iteration cap ("while True").
InLoopBodyNoCap ==
    /\ pc = "iterating"
    /\ ~TimeIsUp

\* The loop body runs: the range is not exhausted and time is left.
InLoopBody ==
    /\ pc = "iterating"
    /\ i < MAX_ITERATIONS
    /\ ~TimeIsUp

\* F_R <= CONVERGENCE_TOL
FLeTol(F) == F[1] * CONVERGENCE_TOL_INV <= F[2]

\* Variant: convergence is declared on the objective alone, whatever the
\* status.
ConvergenceTestNoStatus(ans) == FLeTol(ans.F_R)

\* if F_R <= CONVERGENCE_TOL and status == GRB.OPTIMAL
ConvergenceTest(ans) == FLeTol(ans.F_R) /\ ans.status = "OPTIMAL"

\* Variant: the empty result is recognised by the missing solution only,
\* not by the empty aisle list.
DegenerateOnlyUnsolved(ans) == ~ans.found

\* if not new_aisles
Degenerate(ans) == ans.new_aisles = <<>>

\* Variant: the candidate's ratio is taken per selected order.
NewRPerOrder(ans) ==
    <<Units(instance, Range(ans.new_orders)), Len(ans.new_orders)>>

\* new_R = total_units / len(new_aisles)
NewR(ans) ==
    <<Units(instance, Range(ans.new_orders)), Len(ans.new_aisles)>>

\* Variant: the candidate is taken when it is at least as good (>=, no
\* tolerance).
ImprovesOrEqual(new_R, cur_R) == RatioGe(new_R, cur_R)

\* Variant: the candidate is compared with the initial ratio 0.0 and not
\* with current_R.
ImprovesOverZero(new_R, cur_R) == GtPlusTol(new_R, Zero)

\* if new_R > current_R + CONVERGENCE_TOL
Improves(new_R, cur_R) == GtPlusTol(new_R, cur_R)

\* if new_R >= current_R * significant_improvement_threshold
Significant(new_R, cur_R) ==
    new_R[1] * cur_R[2] * THRESHOLD_DEN >= cur_R[1] * new_R[2] * THRESHOLD_NUM

\* Loop head without a further iteration: range(MAX_ITERATIONS) is
\* exhausted, or the time check breaks.
LoopExit ==
    /\ pc = "iterating"
    /\ i >= MAX_ITERATIONS \/ TimeIsUp
    /\ pc' = "exited"
    /\ exit_reason' = IF i >= MAX_ITERATIONS THEN "cap" ELSE "time"
    /\ UNCHANGED <<lines, time_limit, paces, instance, best_solution,
                   current_R, last_orders, last_aisles, has_momentum, i,
                   elapsed, iter_time_limit, call_R, answer, ncalls, output,
                   run, trace, first>>

\* What solve() records of the returned tuple: the status, whether a
\* solution came back, the outcome of its tests on F_R and new_aisles, and
\* the candidate ratio new_R (0.0 where it is not computed).
Observed(ans) ==
    [status |-> ans.status, found |-> ans.found,
     F_le_tol |-> FLeTol(ans.F_R), no_aisles |-> (ans.new_aisles = <<>>),
     new_R |-> IF ans.new_aisles = <<>> THEN Zero ELSE NewR(ans)]

\* A break out of the loop: nothing of the solver's state is assigned.
Break(reason) ==
    /\ pc' = "exited"
    /\ exit_reason' = reason
    /\ UNCHANGED <<best_solution, current_R, last_orders, last_aisles,
                   has_momentum, i>>

\* The improving branch: momentum flag, register, R and warm start are
\* set from the candidate and the loop goes on.
Promote(ans) ==
    /\ has_momentum' = Significant(NewR(ans), current_R)
    /\ best_solution' =
          [orders |-> ans.new_orders, aisles |-> ans.new_aisles,
           objective |-> NewR(ans),
           total_units |-> Units(instance, Range(ans.new_orders))]
    /\ current_R' = NewR(ans)
    /\ last_orders' = ans.new_orders
    /\ last_aisles' = ans.new_aisles
    /\ i' = i + 1
    /\ UNCHANGED <<pc, exit_reason>>

\* The arguments of a call of _solve_subproblem.
CallArgs ==
    [ratio_R |-> current_R, time_limit_iter |-> IterTimeLimit,
     warm_start_orders |-> last_orders, warm_start_aisles |-> last_aisles]

CallRecord(ans, pace) == [args |-> CallArgs, ans |-> ans, pace |-> pace]

\* The second of two runs meets the oracle and the clock of the first: a
\* call with the arguments of an earlier call gets that call's answer, and
\* the n-th call takes as long as the n-th call of the first run did.
Replays(ans, pace) ==
    run = 2 =>
        \A k \in DOMAIN trace :
            /\ trace[k].args = CallArgs => ans = trace[k].ans
            /\ k = ncalls + 1 => pace = trace[k].pace

\* One pass of the loop body: the time limit of the iteration, the call
\* _solve_subproblem(current_R, iter_time_limit, last_orders, last_aisles)
\* returning ans after the time of pace, and the if-chain on its result.
Iterate ==
    /\ InLoopBody
    /\ \E ans \in OracleAnswers(instance, current_R), pace \in paces :
          /\ Replays(ans, pace)
          /\ trace' = IF run = 1 THEN Append(trace, CallRecord(ans, pace))
                                 ELSE trace
          /\ iter_time_limit' = IterTimeLimit
          /\ call_R' = current_R
          /\ answer' = Observed(ans)
          /\ ncalls' = ncalls + 1
          /\ elapsed' = elapsed + Duration(pace, IterTimeLimit)
          /\ IF ConvergenceTest(ans) THEN Break("converged")
             ELSE IF Degenerate(ans) THEN Break("degenerate")
             ELSE IF Improves(NewR(ans), current_R) THEN Promote(ans)
             ELSE Break("stagnated")
    /\ UNCHANGED <<lines, time_limit, paces, instance, output, run, first>>

\* Variant: solve() writes the register in a "finally" clause when the
\* oracle raises.
AbortOutputBestEffort ==
    IF RatioGt(best_solution.objective, Zero)
        THEN [written |-> TRUE,
              orders |-> SortedSeq(Range(best_solution.orders)),
              aisles |-> SortedSeq(Range(best_solution.aisles))]
        ELSE output

\* The solution file when an exception leaves solve(): the statements after
\* the loop are skipped, so the file is as it was.
AbortOutput == output

\* The call of _solve_subproblem raises gp.GurobiError: solve() has no
\* handler, the exception reaches the except clauses of run_challenge.
OracleRaises ==
    /\ InLoopBody
    /\ iter_time_limit' = IterTimeLimit
    /\ call_R' = current_R
    /\ pc' = "error"
    /\ output' = AbortOutput
    /\ UNCHANGED <<lines, time_limit, paces, instance, best_solution,
                   current_R, last_orders, last_aisles, has_momentum, i,
                   elapsed, answer, ncalls, exit_reason, run, trace, first>>

\* _write_solution_file: the counts and the sorted ids of best_solution.
write_solution_file(sol) ==
    [written |-> TRUE,
     orders |-> SortedSeq(Range(sol.orders)),
     aisles |-> SortedSeq(Range(sol.aisles))]

\* After the loop: the file is written only if sol["objective"] > 0.
Finish ==
    /\ pc = "exited"
    /\ output' = IF RatioGt(best_solution.objective, Zero)
                    THEN write_solution_file(best_solution)
                    ELSE output
    /\ pc' = "done"
    /\ UNCHANGED <<lines, time_limit, paces, instance, best_solution,
                   current_R, last_orders, last_aisles, has_momentum, i,
                   elapsed, iter_time_limit, call_R, answer, ncalls,
                   exit_reason, run, trace, first>>

Next ==
    \/ Parse
    \/ Seed
    \/ LoopExit
    \/ Iterate
    \/ OracleRaises
    \/ Finish

\* run_challenge is called again on the same file with the same budget: a
\* new Instance is parsed and a new WaveSolver made.
Rerun ==
    /\ pc = "done"
    /\ run = 1
    /\ run' = 2
    /\ first' = best_solution
    /\ pc' = "start"
    /\ ncalls' = 0
    /\ exit_reason' = "none"
    /\ UNCHANGED <<lines, time_limit, paces, instance, best_solution,
                   current_R, last_orders, last_aisles, has_momentum, i,
                   elapsed, iter_time_limit, call_R, answer, output, trace>>

Init == InitWith(Inputs, 0)

Spec == Init /\ [][Next]_vars

\* The same runs and the ladder instance, whose run can reach the
\* iteration cap.
InitLadder == InitWith(Inputs \cup LadderInputs, 0)

SpecLadder == InitLadder /\ [][Next]_vars

\* Two runs one after the other on the same input, the second with the
\* oracle and the clock of the first.
InitTwice == InitWith(Inputs, 1)

NextTwice == Next \/ Rerun

SpecTwice == InitTwice /\ [][NextTwice]_vars

\* solve() is called again on the same WaveSolver object: the object keeps
\* its instance and its best_solution, solve() starts at its first
\* statement.
Resolve ==
    /\ pc = "done"
    /\ run = 3
    /\ run' = 4
    /\ first' = best_solution
    /\ pc' = "constructed"
    /\ ncalls' = 0
    /\ exit_reason' = "none"
    /\ UNCHANGED <<lines, time_limit, paces, instance, best_solution,
                   current_R, last_orders, last_aisles, has_momentum, i,
                   elapsed, iter_time_limit, call_R, answer, output, trace>>

\* Two calls of solve() on one WaveSolver object.
InitResolve == InitWith(Inputs, 3)

NextResolve == Next \/ Resolve

SpecResolve == InitResolve /\ [][NextResolve]_vars

----------------------------------------------------------------------------
(* Properties.                                                             *)

Finished == pc = "done"

RegisterOrders == Range(best_solution.orders)
RegisterAisles == Range(best_solution.aisles)

\* Inventory sufficiency of a wave (X, Y) of the instance.
Sufficient(inst, X, Y) ==
    \A item \in ItemsOf(inst, X) :
        Demand(inst, X, item) <= Supply(inst, Y, item)

InBand(inst, units) ==
    inst.min_wave_size <= units /\ units <= inst.max_wave_size

\* C1: when solve() has finished, the solution in the register satisfies
\* inventory sufficiency: for every item demanded by a selected order, the
\* demand of the selected orders is at most the supply of the visited
\* aisles.
C1_InventoryInvariant ==
    Finished => Sufficient(instance, RegisterOrders, RegisterAisles)

\* C2: when solve() has finished, the total units of the solution in the
\* register lie in [min_wave_size, max_wave_size], unless the register is
\* empty (no orders, no aisles).
C2_WaveSizeInvariant ==
    Finished =>
        \/ best_solution.orders = <<>> /\ best_solution.aisles = <<>>
        \/ /\ InBand(instance, best_solution.total_units)
           /\ InBand(instance, Units(instance, RegisterOrders))

\* C2 witness: a finished run whose register was set by a promoted oracle
\* candidate.
C2_Witness ==
    /\ Finished
    /\ i >= 1
    /\ best_solution.orders # <<>>
    /\ best_solution.aisles # <<>>

\* C3: in every step of a run the ratio in the register does not decrease,
\* and once seeding is over it changes only in an iteration whose candidate
\* ratio (the new register ratio) exceeds by more than the tolerance the
\* ratio R the iteration's subproblem was solved for.
C3_MonotonicImprovement ==
    [][/\ RatioGe(best_solution'.objective, best_solution.objective)
       /\ (pc = "iterating"
             /\ ~RatioEq(best_solution'.objective, best_solution.objective))
            => /\ ncalls' = ncalls + 1
               /\ call_R' = current_R
               /\ GtPlusTol(best_solution'.objective, current_R)]_vars

\* C3 witness: a register that was seeded and then replaced in an
\* iteration.
C3_Witness ==
    /\ pc = "iterating"
    /\ i >= 1
    /\ RatioGt(call_R, Zero)
    /\ RatioGt(best_solution.objective, call_R)

\* The orders the greedy scan accepted and the union of their aisles.
Accepted == Greedy(instance).selected
AcceptedAisles ==
    UNION {RequiredAisles(instance, OrderById(instance, o)) : o \in Accepted}

JustSeeded == pc = "iterating" /\ ncalls = 0

\* C4: if for the orders the seeder accepted some item's demand exceeds its
\* supply over the union of their required aisles, the seeder returns the
\* zero triple and the register keeps its initial empty value.
C4_SeederRejection ==
    (JustSeeded /\ ~Sufficient(instance, Accepted, AcceptedAisles))
        => /\ current_R = Zero
           /\ last_orders = <<>>
           /\ last_aisles = <<>>
           /\ best_solution = EmptySolution

\* C4 witness: the seeder has run on accepted orders that reach the
\* minimum wave size and have aisles, but lack supply for an item.
C4_Witness ==
    /\ JustSeeded
    /\ Greedy(instance).units >= instance.min_wave_size
    /\ AcceptedAisles # {}
    /\ ~Sufficient(instance, Accepted, AcceptedAisles)

\* The waves of the problem itself: some aisle is visited, the units are
\* within the band and the visited aisles supply every demanded item.
TrueWaves(inst) ==
    {xy \in (SUBSET OrderIds(inst)) \X (SUBSET AisleIds(inst)) :
        /\ xy[2] # {}
        /\ InBand(inst, Units(inst, xy[1]))
        /\ Sufficient(inst, xy[1], xy[2])}

WaveRatio(inst, xy) == <<Units(inst, xy[1]), Cardinality(xy[2])>>

\* C5: when the loop is left by convergence, the ratio in the register is
\* the optimum: it equals the current R, the register's own solution has
\* that ratio (or is empty with R = 0), and no wave within the band and
\* with sufficient inventory has a ratio above it by more than the
\* tolerance.
C5_ConvergedIsOptimal ==
    exit_reason = "converged" =>
        /\ RatioEq(best_solution.objective, current_R)
        /\ IF best_solution.aisles = <<>>
             THEN best_solution.orders = <<>> /\ RatioEq(current_R, Zero)
             ELSE RatioEq(<<Units(instance, RegisterOrders),
                            Len(best_solution.aisles)>>, current_R)
        /\ \A xy \in TrueWaves(instance) :
              ~GtPlusTol(WaveRatio(instance, xy), best_solution.objective)

\* C5 witness: the loop was left by convergence on an instance that has
\* waves.
C5_Witness ==
    /\ exit_reason = "converged"
    /\ TrueWaves(instance) # {}

\* C6: after every exit of the iteration loop the content of the register
\* is written to the solution file, also when it is empty.
C6_WriteAfterExit ==
    Finished => output = write_solution_file(best_solution)

\* C7: the loop is left by convergence only on a proven-optimal status
\* with F(R) within the tolerance; a call that ends with another status is
\* never convergence, whatever its objective: it is the degenerate exit if
\* no aisle came back, and otherwise an improvement or the stagnation exit.
C7_ConvergedOnlyWhenProven ==
    /\ [](exit_reason = "converged"
            => answer.status = "OPTIMAL" /\ answer.F_le_tol)
    /\ [][(ncalls' = ncalls + 1 /\ answer'.status # "OPTIMAL")
            => IF answer'.no_aisles
                 THEN pc' = "exited" /\ exit_reason' = "degenerate"
                 ELSE \/ pc' = "exited" /\ exit_reason' = "stagnated"
                      \/ pc' = "iterating" /\ i' = i + 1]_vars

\* C7 witness: a call ended at the time limit with a solution whose
\* objective is within the tolerance, and the loop was left, not by
\* convergence.
C7_Witness ==
    /\ answer.status = "TIME_LIMIT"
    /\ answer.found
    /\ answer.F_le_tol
    /\ pc = "exited"
    /\ exit_reason \in {"degenerate", "stagnated"}

\* Steps a run can still take at most: the rank of its position, and
\* within the loop the iterations that are left.
PhaseRank ==
    CASE pc = "start" -> 4
      [] pc = "constructed" -> 3
      [] pc = "iterating" -> 2
      [] pc = "exited" -> 1
      [] OTHER -> 0

Measure == PhaseRank * (MAX_ITERATIONS + 1) + (MAX_ITERATIONS - i)

\* C8: the loop terminates: never more than MAX_ITERATIONS oracle calls,
\* no oracle call once the remaining time is within the safety margin, and
\* every step (an oracle call that returns, whatever its answer) brings the
\* run nearer to its end, so no run is infinite.
C8_Termination ==
    /\ [](ncalls <= MAX_ITERATIONS /\ Measure >= 0)
    /\ [][/\ ncalls' = ncalls + 1 => time_limit - elapsed > SAFETY_MARGIN
          /\ Measure' < Measure]_vars

\* C8 witness: the loop was left because range(MAX_ITERATIONS) was used up.
C8_Witness ==
    /\ exit_reason = "cap"
    /\ ncalls = MAX_ITERATIONS
    /\ i = MAX_ITERATIONS

\* C9: the second of two runs on the same instance with the same budget,
\* the same clock trace and the same (deterministic) oracle ends with the
\* register content of the first.
C9_IdempotentResolve ==
    (run = 2 /\ Finished) => best_solution = first

\* C9 witness: the second run has finished after promoting a candidate in
\* its second iteration or later.
C9_Witness ==
    /\ run = 2
    /\ Finished
    /\ ncalls >= 2
    /\ i >= 1
    /\ first.orders # <<>>

\* C10: on the example instance the seeder returns ratio 8 with orders 0, 1
\* and aisle 0; the first subproblem, solved to proven optimality, has an
\* objective within the tolerance and the loop is left by convergence in
\* the first iteration; the file written has 2 orders and 1 aisle.
C10_ExampleConverges ==
    lines = ExampleFile =>
        /\ JustSeeded => /\ RatioEq(current_R, <<8, 1>>)
                         /\ last_orders = <<0, 1>>
                         /\ last_aisles = <<0>>
        /\ (ncalls = 1 /\ answer.status = "OPTIMAL")
              => /\ answer.F_le_tol
                 /\ exit_reason = "converged"
                 /\ i = 0
        /\ (Finished /\ answer.status \in {"OPTIMAL", "NONE"})
              => /\ output.written
                 /\ Len(output.orders) = 2
                 /\ Len(output.aisles) = 1

\* C11: on the example instance with wave size bounds 3 and 2 the seeder
\* returns the zero triple, so the driver starts at R = 0; the first oracle
\* call returns no solution and the loop is left by the degenerate exit in
\* the first iteration; the file written is the empty solution, 0 orders
\* and 0 aisles.
C11_NarrowBandEmptyOutput ==
    lines = ExampleFileNarrow =>
        /\ JustSeeded => /\ current_R = Zero
                         /\ last_orders = <<>>
                         /\ last_aisles = <<>>
        /\ ncalls = 1 => /\ ~answer.found
                         /\ exit_reason = "degenerate"
                         /\ i = 0
        /\ (Finished /\ ncalls = 1)
              => /\ best_solution = EmptySolution
                 /\ output = [written |-> TRUE, orders |-> <<>>,
                               aisles |-> <<>>]

Parsed == pc \notin {"start", "error"}

\* C12: in every state after InstanceParser.parse has returned, both
\* reverse indices of the Instance are populated: item_locations maps every
\* item stocked by some aisle to the ids of the aisles stocking it, and
\* orders_by_item maps every item demanded by some order to the ids of the
\* orders requiring it, so every demanded item is a key of orders_by_item.
C12_ReverseIndices ==
    Parsed =>
        /\ instance.item_locations = build_item_locations(instance.aisles)
        /\ instance.orders_by_item = build_orders_by_item(instance.orders)
        /\ \A k \in DOMAIN instance.orders :
              DOMAIN instance.orders[k].items
                  \subseteq DOMAIN instance.orders_by_item

Aborted == pc = "error"

\* C13: when parsing fails or the oracle raises an error, the run is aborted
\* at once: in the aborted run nothing has been written to the solution
\* file, and from then on no oracle call is made and nothing is written,
\* also when the register already holds a solution of positive ratio.
C13_AbortWithoutOutput ==
    /\ [](Aborted => output = NoFile)
    /\ [][Aborted => /\ Aborted'
                     /\ ncalls' = ncalls
                     /\ output' = output
                     /\ best_solution' = best_solution]_vars

\* C13 witness: the oracle raised after an earlier call's candidate had been
\* promoted to the register.
C13_Witness ==
    /\ Aborted
    /\ ncalls >= 1
    /\ RatioGt(best_solution.objective, Zero)
    /\ best_solution.aisles # <<>>

\* The files the format rules out: a header that is not three numbers, a
\* declared order line that is missing, or an order or aisle record whose
\* payload length is not twice its count.  The aisle records are the lines
\* at the declared aisle positions, except a last line of two numbers,
\* which is the limits line of a truncated aisle section.
HeaderMalformed(ls) == Len(ls) = 0 \/ Len(ls[1]) # 3

OrderRecordsBad(ls) ==
    \E j \in 1..ls[1][1] :
        \/ 1 + j > Len(ls)
        \/ ls[1 + j] = <<>>
        \/ PayloadMismatch(ls[1 + j])

AislePositions(ls) ==
    {n \in (ls[1][1] + 2)..(ls[1][1] + 1 + ls[1][3]) :
        /\ n <= Len(ls)
        /\ ~(n = Len(ls) /\ Len(ls[n]) = 2)}

AisleRecordsBad(ls) ==
    \E n \in AislePositions(ls) : ls[n] = <<>> \/ PayloadMismatch(ls[n])

MalformedInput(ls) ==
    \/ HeaderMalformed(ls)
    \/ OrderRecordsBad(ls)
    \/ AisleRecordsBad(ls)

\* C14: parse fails whenever the header is malformed, a declared order
\* record is missing, or an order or aisle record's payload length differs
\* from twice its declared count (too short or too long); this for the
\* parser run_challenge uses and for the parser of parser.py.
C14_MalformedRejected ==
    (pc # "start" /\ MalformedInput(lines))
        => /\ Aborted
           /\ ~parser_parse(lines).ok

\* 0 <= minWaveSize <= maxWaveSize
LimitsOrdered(inst) ==
    0 <= inst.min_wave_size /\ inst.min_wave_size <= inst.max_wave_size

\* C15: every Instance returned by parse has 0 <= min_wave_size <=
\* max_wave_size, whatever file the parser accepted: also a file without a
\* limits line, with a limits line of another length, or with a lower limit
\* above the upper one; this for the parser run_challenge uses and for the
\* parser of parser.py.
C15_LimitsOrdered ==
    Parsed =>
        /\ LimitsOrdered(instance)
        /\ parser_parse(lines).ok
              => LimitsOrdered(parser_parse(lines).instance)

\* The relative gain of new_R over cur_R is defined and exceeds 10%.
ExceedsThreshold(new_R, cur_R) ==
    /\ RatioGt(cur_R, Zero)
    /\ new_R[1] * cur_R[2] * THRESHOLD_DEN > cur_R[1] * new_R[2] * THRESHOLD_NUM

\* The slice of an iteration that starts with the given flag.
SliceFor(flag) ==
    IF flag THEN base_iter_time * momentum_bonus_factor ELSE base_iter_time

\* A step in which an oracle call returns, and one in which its candidate
\* is promoted.
CallReturns == ncalls' = ncalls + 1
Promotes == CallReturns /\ pc' = "iterating" /\ i' = i + 1

\* C16: after an improving iteration the momentum flag is true exactly if
\* the candidate's ratio exceeds the R the iteration started from by more
\* than 10% (false at exactly 10%, false from R = 0); the slice of an
\* iteration is the base 15 s, doubled to 30 s if the flag was true at its
\* start, capped by the remaining time; the first iteration starts without
\* the flag.
C16_MomentumPolicy ==
    [][/\ Promotes
            => has_momentum' = ExceedsThreshold(answer'.new_R, current_R)
       /\ CallReturns
            => iter_time_limit' =
                   Min({SliceFor(has_momentum), time_limit - elapsed})
       /\ (CallReturns /\ ncalls = 0) => ~has_momentum]_vars

\* A step in which _solve_subproblem is called: it returns or it raises.
CallMade == CallReturns \/ (pc = "iterating" /\ pc' = "error")

\* C17: in every iteration the time limit handed to the oracle is at most
\* the global time remaining at the start of the iteration, time_limit
\* minus elapsed, with or without momentum.
C17_SliceWithinRemaining ==
    [][CallMade => iter_time_limit' <= time_limit - elapsed]_vars

\* C17 witness: a call with momentum that took no time and whose doubled
\* slice was cut down to the remaining time.
C17_Witness ==
    /\ ncalls >= 2
    /\ iter_time_limit > base_iter_time
    /\ iter_time_limit < base_iter_time * momentum_bonus_factor
    /\ iter_time_limit = time_limit - elapsed

\* The head of an iteration that range(MAX_ITERATIONS) still allows.
AtLoopHead == pc = "iterating" /\ i < MAX_ITERATIONS

\* C18: at the start of an iteration the driver leaves the loop by the time
\* exit, without calling the oracle, exactly if the remaining global time
\* is below the safety margin of 5 s; with 5 s or more remaining the
\* iteration goes on to the oracle call.
C18_TimeExitBelowMargin ==
    [][AtLoopHead =>
          IF time_limit - elapsed < SAFETY_MARGIN
            THEN /\ pc' = "exited"
                 /\ exit_reason' = "time"
                 /\ ncalls' = ncalls
            ELSE CallMade]_vars

\* The time by which the call that returns in this step outlasted the limit
\* it was handed (0 if it returned within the limit).
CallOverrun ==
    IF elapsed' - elapsed > iter_time_limit'
        THEN elapsed' - elapsed - iter_time_limit'
        ELSE 0

\* C19: time passes only in oracle calls, and when a call returns the
\* elapsed time exceeds the global budget by at most the overrun of that
\* one call, whatever earlier calls overran; so the elapsed time at the exit
\* of the loop is within one call's overrun of the budget, and within the
\* budget if the last call kept its limit.
C19_OverrunOfOneCall ==
    /\ [](elapsed <= time_limit + MaxOverrun)
    /\ [][/\ elapsed' # elapsed => CallReturns
          /\ CallReturns => elapsed' <= time_limit + CallOverrun]_vars

\* C19 witness: two calls have overrun their limits, and the elapsed time
\* is over the budget by the overrun of the second alone.
C19_Witness ==
    /\ ncalls = 2
    /\ elapsed = (base_iter_time + MaxOverrun) + (iter_time_limit + MaxOverrun)
    /\ elapsed = time_limit + MaxOverrun

\* The solver's state an iteration may assign: register, R, warm start and
\* momentum flag.
SolverState ==
    <<best_solution, current_R, last_orders, last_aisles, has_momentum>>

\* The call that returns in this step brings a candidate with aisles whose
\* ratio is not above current_R by more than the tolerance.
CandidateNotBetter ==
    /\ CallReturns
    /\ ~answer'.no_aisles
    /\ ~GtPlusTol(answer'.new_R, current_R)

\* The convergence test passes on the call that returns in this step.
ProvenConverged == answer'.status = "OPTIMAL" /\ answer'.F_le_tol

\* C20 as stated: whenever an iteration's candidate has aisles and its ratio
\* is not greater than R + 1e-6, the loop is left by the stagnation exit and
\* register, R, warm start and momentum flag keep their values.
C20_StagnationAsStated ==
    [][CandidateNotBetter
          => /\ pc' = "exited"
             /\ exit_reason' = "stagnated"
             /\ SolverState' = SolverState]_vars

\* C20 amended: whenever an iteration's candidate has aisles and its ratio
\* is not greater than R + 1e-6, the iteration changes nothing of register,
\* R, warm start and momentum flag and the loop is left: by the convergence
\* exit if the call was proven optimal with F(R) <= 1e-6, and by the
\* stagnation exit otherwise.
C20_StagnationFrame ==
    [][CandidateNotBetter
          => /\ pc' = "exited"
             /\ exit_reason' =
                   IF ProvenConverged THEN "converged" ELSE "stagnated"
             /\ SolverState' = SolverState]_vars

\* C20 witness: the loop was left by stagnation after an earlier promotion
\* with momentum, on a candidate of the same ratio as R.
C20_Witness ==
    /\ exit_reason = "stagnated"
    /\ i >= 1
    /\ has_momentum
    /\ ~answer.no_aisles
    /\ RatioEq(answer.new_R, current_R)
    /\ best_solution.aisles # <<>>

\* C21: when the call that returns has no visited aisle (no solution, or a
\* solution with every y = 0) and the convergence test did not fire, the
\* loop is left by the degenerate exit: the run does not end in an error,
\* no ratio over the empty aisle list is formed, and register, R, warm
\* start and momentum flag keep their values.
C21_DegenerateExit ==
    [][(CallReturns /\ answer'.no_aisles /\ ~ProvenConverged)
          => /\ pc' = "exited"
             /\ exit_reason' = "degenerate"
             /\ answer'.new_R = Zero
             /\ SolverState' = SolverState]_vars

\* C21 witness: the degenerate exit on a solution that selects orders and
\* visits no aisle, with a seeded register.
C21_Witness ==
    /\ exit_reason = "degenerate"
    /\ answer.found
    /\ answer.no_aisles
    /\ ~answer.F_le_tol
    /\ best_solution.aisles # <<>>

\* The seeder returned a triple other than (0, [], []).
SeedReturned == JustSeeded /\ last_aisles # <<>>

\* The aisles that stock some item of the orders in X, read from the
\* aisles' inventories.
StockingAisles(inst, X) ==
    {inst.aisles[k].id : k \in {j \in DOMAIN inst.aisles :
        DOMAIN inst.aisles[j].inventory \cap ItemsOf(inst, X) # {}}}

\* C22: whenever the seeder returns a non-zero triple, its aisles are
\* exactly the aisles stocking some item of its orders, its ratio is the
\* orders' total units over the number of those aisles, the orders are
\* within the wave-size band and their demand is covered by those aisles,
\* and the register holds the same triple.
C22_SeedTriple ==
    SeedReturned =>
        LET X == Range(last_orders)
            Y == Range(last_aisles)
        IN /\ Len(last_orders) = Cardinality(X)
           /\ Len(last_aisles) = Cardinality(Y)
           /\ Y = StockingAisles(instance, X)
           /\ current_R = <<Units(instance, X), Cardinality(Y)>>
           /\ InBand(instance, Units(instance, X))
           /\ Sufficient(instance, X, Y)
           /\ best_solution = [orders |-> last_orders,
                               aisles |-> last_aisles,
                               objective |-> current_R,
                               total_units |-> Units(instance, X)]

\* C22 witness: a returned seed of two orders over two aisles.
C22_Witness ==
    /\ SeedReturned
    /\ Len(last_orders) = 2
    /\ Len(last_aisles) = 2

\* The order of the seeder's scan: positions into instance.orders.
ScanOrder == SortByScore(instance, Scoreable(instance))

\* The orders with an item that some aisle stocks, and the number of
\* distinct aisles stocking an item of order k, read from the inventories.
HasStock(inst, k) == StockingAisles(inst, {inst.orders[k].id}) # {}
NumStocking(inst, k) == Cardinality(StockingAisles(inst, {inst.orders[k].id}))

\* The units of the accepted orders among the first n of the scan.
UnitsBefore(scan, n) ==
    LET early == {scan[m] : m \in 1..n} \cap {o + 1 : o \in Accepted}
    IN SumFn([k \in early |-> instance.orders[k].total_units], early)

\* C23: the seeder scans exactly the orders that some aisle can serve, each
\* once, in descending order of total units per stocking aisle; it accepts
\* an order exactly if the units accepted before it plus its own stay
\* within max_wave_size, whether or not an earlier order was skipped; and
\* the units of a non-empty selection are at most max_wave_size.
C23_GreedyScan ==
    Parsed =>
        LET scan == ScanOrder
            g == Greedy(instance)
        IN /\ Range(scan) = {k \in DOMAIN instance.orders :
                                HasStock(instance, k)}
           /\ Len(scan) = Cardinality(Range(scan))
           /\ \A p, q \in DOMAIN scan :
                 p < q =>
                    instance.orders[scan[p]].total_units
                          * NumStocking(instance, scan[q])
                      >= instance.orders[scan[q]].total_units
                          * NumStocking(instance, scan[p])
           /\ \A p \in DOMAIN scan :
                 (instance.orders[scan[p]].id \in g.selected)
                    <=> (UnitsBefore(scan, p - 1)
                           + instance.orders[scan[p]].total_units
                              <= instance.max_wave_size)
           /\ g.selected \subseteq {instance.orders[scan[p]].id :
                                       p \in DOMAIN scan}
           /\ g.units = UnitsBefore(scan, Len(scan))
           /\ g.selected # {} => g.units <= instance.max_wave_size

\* C23 witness: the seeder has run on an instance where an order did not
\* fit and an order later in the scan was accepted.
C23_Witness ==
    /\ JustSeeded
    /\ \E p, q \in DOMAIN ScanOrder :
          /\ p < q
          /\ instance.orders[ScanOrder[p]].id \notin Accepted
          /\ instance.orders[ScanOrder[q]].id \in Accepted

\* The greedy scan ended below min_wave_size, or its accepted orders have no
\* required aisle.
SeedUnusable ==
    \/ Greedy(instance).units < instance.min_wave_size
    \/ StockingAisles(instance, Accepted) = {}

\* C24: if the units accumulated by the greedy scan are below
\* min_wave_size, or the accepted orders have no required aisle, the seeder
\* returns the zero triple and leaves the register at its initial value,
\* and the first oracle call is made at R = 0 (the warm start it is handed
\* is the empty pair of lists the seeder returned).
C24_SeedUnusable ==
    /\ []((JustSeeded /\ SeedUnusable)
            => /\ current_R = Zero
               /\ last_orders = <<>>
               /\ last_aisles = <<>>
               /\ best_solution = EmptySolution)
    /\ [][(CallMade /\ ncalls = 0 /\ SeedUnusable)
            => /\ call_R' = Zero
               /\ last_orders = <<>>
               /\ last_aisles = <<>>]_vars

\* C24 witness: the first call has returned in a run whose scan accepted
\* orders that stay below min_wave_size.
C24_Witness ==
    /\ ncalls = 1
    /\ Accepted # {}
    /\ Greedy(instance).units < instance.min_wave_size

\* C25: no step of the driver modifies the Instance: in every state after
\* parsing, its orders, aisles, item_locations, orders_by_item and wave
\* limits are those parse returned.
C25_InstanceReadOnly ==
    Parsed => instance = parse(lines).instance

\* C25 witness: a finished run that seeded, promoted a candidate and wrote
\* the solution file, on an instance whose scan order differs from the
\* order of its orders.
C25_Witness ==
    /\ Finished
    /\ i >= 1
    /\ output.written
    /\ Len(ScanOrder) >= 2
    /\ ScanOrder[1] > ScanOrder[2]

\* C26: in a run on a newly made WaveSolver, at every oracle invocation the
\* ratio handed over is the ratio in the register and the warm-start lists
\* are the register's orders and aisles; and the ratio of every call after
\* the first is strictly greater than the ratio of the call before.
C26_CallArgsFollowRegister ==
    [][CallMade
          => /\ call_R' = best_solution.objective
             /\ CallArgs.ratio_R = best_solution.objective
             /\ CallArgs.warm_start_orders = best_solution.orders
             /\ CallArgs.warm_start_aisles = best_solution.aisles
             /\ ncalls >= 1 => RatioGt(call_R', call_R)]_vars

\* C26 witness: a third call is due after a seed and two promotions.
C26_Witness ==
    /\ pc = "iterating"
    /\ ncalls = 2
    /\ i = 2
    /\ RatioGt(call_R, Zero)
    /\ RatioGt(current_R, call_R)

\* The sum of the total units of the orders with the listed ids.
ListedUnits(ids) ==
    SumFn([n \in DOMAIN ids |-> OrderById(instance, ids[n]).total_units],
          DOMAIN ids)

\* C27: in every state the register is consistent with itself: total_units
\* is the sum of the total units of its orders, and either it has aisles and
\* objective = total_units / |aisles|, or it has neither orders nor aisles
\* and objective = 0 and total_units = 0.
C27_RegisterConsistent ==
    /\ best_solution.total_units = ListedUnits(best_solution.orders)
    /\ \/ /\ best_solution.aisles # <<>>
          /\ best_solution.objective[2] > 0
          /\ RatioEq(best_solution.objective,
                     <<best_solution.total_units, Len(best_solution.aisles)>>)
       \/ /\ best_solution.orders = <<>>
          /\ best_solution.aisles = <<>>
          /\ RatioEq(best_solution.objective, Zero)
          /\ best_solution.total_units = 0

\* C27 witness: a register set by a promotion, with more orders than aisles.
C27_Witness ==
    /\ i >= 1
    /\ Len(best_solution.orders) > Len(best_solution.aisles)
    /\ best_solution.aisles # <<>>

\* The register as the seeder's result: the stored triple, or the empty
\* solution with ratio 0 for the zero triple.
SeedAsRegister ==
    LET seed == generate_initial_solution(instance)
    IN [orders |-> seed.orders, aisles |-> seed.aisles,
        objective |-> seed.ratio, total_units |-> seed.total_units]

SecondSolve == run = 4 /\ pc \in {"iterating", "exited", "done"}

\* C28: in a second solve() on the same WaveSolver the register at the
\* start of the iterations is the second run's seed result (the empty
\* solution with ratio 0 for the zero triple), its ratio is the current R,
\* and the register ratio does not decrease within the second run.
C28_SecondSolveStartsFromSeed ==
    /\ [](SecondSolve /\ JustSeeded
            => /\ best_solution = SeedAsRegister
               /\ RatioEq(best_solution.objective, current_R))
    /\ [][SecondSolve /\ SecondSolve'
            => RatioGe(best_solution.objective', best_solution.objective)]_vars

\* The ids of an Instance are its list positions (counted from 0), the
\* orders are as many as the header says, and every id of item_locations
\* is an index into aisles.
DenseIds(inst) ==
    /\ Len(inst.orders) = inst.num_orders
    /\ \A k \in DOMAIN inst.orders : inst.orders[k].id = k - 1
    /\ Len(inst.aisles) <= inst.num_aisles
    /\ \A k \in DOMAIN inst.aisles : inst.aisles[k].id = k - 1
    /\ \A item \in DOMAIN inst.item_locations :
          \A n \in DOMAIN inst.item_locations[item] :
             LET id == inst.item_locations[item][n]
             IN /\ id \in 0..(Len(inst.aisles) - 1)
                /\ AisleById(inst, id).id = id
                /\ item \in DOMAIN AisleById(inst, id).inventory

\* C29: every Instance returned by either InstanceParser.parse has dense
\* ids equal to list positions: numOrders orders with orders[i].id = i,
\* aisles[j].id = j for every parsed aisle, also when the aisle section is
\* cut short, and every id in itemLocations is a valid index into aisles.
C29_DenseIds ==
    /\ Parsed => DenseIds(instance)
    /\ (pc # "start" /\ parser_parse(lines).ok)
          => DenseIds(parser_parse(lines).instance)

\* C29 witness: a file was parsed whose aisle section is cut short, with an
\* aisle read and indexed, and parser.py accepts the file as well.
C29_Witness ==
    /\ Parsed
    /\ Len(instance.aisles) < instance.num_aisles
    /\ instance.item_locations # EmptyDict
    /\ parser_parse(lines).ok
    /\ Len(parser_parse(lines).instance.aisles) < instance.num_aisles

\* C30: every time limit handed to the oracle is greater than the safety
\* margin of 5 s and at most 30 s (base slice 15 s times the multiplier 2),
\* hence never zero or negative, whatever the global budget and the clock.
C30_TimeLimitRange ==
    [][CallMade
          => /\ iter_time_limit' = CallArgs.time_limit_iter
             /\ iter_time_limit' > SAFETY_MARGIN
             /\ iter_time_limit' > 0
             /\ iter_time_limit' <= base_iter_time * momentum_bonus_factor]_vars

\* C30 witness: after a call that outlasted its limit, a second call was
\* made with a limit cut below the base slice by the remaining time.
C30_Witness ==
    /\ ncalls >= 2
    /\ iter_time_limit < base_iter_time
    /\ iter_time_limit > SAFETY_MARGIN
    /\ iter_time_limit = time_limit - elapsed

====
